---- MODULE Spec2Model ----
(***************************************************************************)
(* Model of generate-location-icons.py: a batch generator that walks the   *)
(* child folders of ICONS_DIR, reads each folder's icon-names.txt and      *)
(* draws a placeholder PNG for every listed name that has no file yet.     *)
(*                                                                         *)
(* Strings the code computes with (manifest lines, icon names, labels,     *)
(* hex colours) are sequences of one-character strings, so that strip(),   *)
(* replace('.png', ''), text[:3] and hex_to_rgb are computed, not assumed. *)
(* The filesystem is a function from paths to file contents; its domain is *)
(* the set of existing files.                                              *)
(***************************************************************************)
EXTENDS Integers, Sequences, FiniteSets, TLC

VARIABLES
    root,                 \* what ICONS_DIR is on disk: "missing", "file", "dir"
    listing,              \* os.listdir(ICONS_DIR): the child names, in the order returned
    dirs,                 \* the child names that are directories
    fs,                   \* path -> content, for every existing file
    failing,              \* file names for which img.save raises
    leavesPartial,        \* a failed save leaves the file it opened behind
    pc,                   \* position of main()
    run,                  \* number of the current execution of the script
    todo,                 \* entries of the listing not yet visited by the for loop
    category_name,        \* folder being processed by generate_icons_for_category
    style,                \* (color, shape, text) resolved for that folder
    icon_names,           \* manifest entries not yet visited by the inner loop
    generated_count,
    total_generated,
    categories_processed,
    ret,                  \* folder -> value returned by generate_icons_for_category, this run
    out,                  \* messages printed by this run
    fs0,                  \* the filesystem when this run started
    interrupted           \* some earlier run was interrupted by the operator

envVars == <<root, listing, dirs, failing, leavesPartial>>
vars == <<root, listing, dirs, fs, failing, leavesPartial, pc, run, todo,
          category_name, style, icon_names, generated_count, total_generated,
          categories_processed, ret, out, fs0, interrupted>>

----------------------------------------------------------------------------
(* Bounds *)

MaxTotalLines == 2        \* lines of all manifests under the root, together
MaxRuns == 2              \* executions of the script in one behaviour

----------------------------------------------------------------------------
(* Strings *)

PNG == <<".", "p", "n", "g">>
ManifestName == <<"i", "c", "o", "n", "-", "n", "a", "m", "e", "s", ".", "t", "x", "t">>
Whitespace == {" ", "\n", "\t", "\r"}

RECURSIVE lstrip(_, _)
lstrip(s, chars) ==
    IF s # <<>> /\ Head(s) \in chars THEN lstrip(Tail(s), chars) ELSE s

RECURSIVE rstrip(_, _)
rstrip(s, chars) ==
    IF s # <<>> /\ s[Len(s)] \in chars THEN rstrip(SubSeq(s, 1, Len(s) - 1), chars) ELSE s

\* str.strip()
strip(s) == rstrip(lstrip(s, Whitespace), Whitespace)

\* icon_name.replace('.png', ''): every occurrence, scanning left to right
RECURSIVE replace_png(_)
replace_png(s) ==
    IF s = <<>> THEN <<>>
    ELSE IF Len(s) >= Len(PNG) /\ SubSeq(s, 1, Len(PNG)) = PNG
         THEN replace_png(SubSeq(s, Len(PNG) + 1, Len(s)))
         ELSE <<Head(s)>> \o replace_png(Tail(s))

\* text[:3]
first3(s) == SubSeq(s, 1, IF Len(s) < 3 THEN Len(s) ELSE 3)

----------------------------------------------------------------------------
(* Style registry *)

Hex(s) == [kind |-> "hex", v |-> s]
Rgb(t) == [kind |-> "rgb", v |-> t]

CATEGORY_STYLES ==
    [ k \in {"enemies-arcs", "extraction", "spawn", "locked-rooms", "objectives",
             "loot-containers", "supply-stations", "resources-plants", "other"} |->
        CASE k = "enemies-arcs"     -> <<<<"#","e","f","5","3","5","0">>, "diamond",    <<"A","R","C">>>>
          [] k = "extraction"       -> <<<<"#","2","6","c","6","d","a">>, "arrow_up",   <<"E","X","I","T">>>>
          [] k = "spawn"            -> <<<<"#","f","f","f","f","f","f">>, "arrow_down", <<"D","R","O","P">>>>
          [] k = "locked-rooms"     -> <<<<"#","f","b","c","0","2","d">>, "padlock",    <<"L","O","C","K">>>>
          [] k = "objectives"       -> <<<<"#","f","f","e","b","3","b">>, "star",       <<"O","B","J">>>>
          [] k = "loot-containers"  -> <<<<"#","e","0","e","0","e","0">>, "box",        <<"L","O","O","T">>>>
          [] k = "supply-stations"  -> <<<<"#","b","d","b","d","b","d">>, "radio",      <<"S","U","P">>>>
          [] k = "resources-plants" -> <<<<"#","6","6","b","b","6","a">>, "leaf",       <<"B","I","O">>>>
          [] k = "other"            -> <<<<"#","9","e","9","e","9","e">>, "circle",     <<"?","?","?">>>> ]

HexDigit(c) ==
    CASE c = "0" -> 0 [] c = "1" -> 1 [] c = "2" -> 2 [] c = "3" -> 3
      [] c = "4" -> 4 [] c = "5" -> 5 [] c = "6" -> 6 [] c = "7" -> 7
      [] c = "8" -> 8 [] c = "9" -> 9 [] c = "a" -> 10 [] c = "b" -> 11
      [] c = "c" -> 12 [] c = "d" -> 13 [] c = "e" -> 14 [] c = "f" -> 15

\* hex_to_rgb: int(h[i:i+2], 16) for i in (0, 2, 4), after lstrip('#')
hex_to_rgb(hex_color) ==
    LET h == lstrip(hex_color, {"#"})
    IN  << 16 * HexDigit(h[1]) + HexDigit(h[2]),
           16 * HexDigit(h[3]) + HexDigit(h[4]),
           16 * HexDigit(h[5]) + HexDigit(h[6]) >>

\* mutant: the fallback names a shape the renderer has no branch for
ResolveStyle_square(name) ==
    IF name \notin DOMAIN CATEGORY_STYLES
    THEN << Hex(<<"#","9","e","9","e","9","e">>), "square", <<"?","?","?">> >>
    ELSE << Rgb(hex_to_rgb(CATEGORY_STYLES[name][1])),
            CATEGORY_STYLES[name][2], CATEGORY_STYLES[name][3] >>

\* the (color, shape, text) that generate_icons_for_category passes to draw_icon
ResolveStyle(name) ==
    IF name \notin DOMAIN CATEGORY_STYLES
    THEN << Hex(<<"#","9","e","9","e","9","e">>), "circle", <<"?","?","?">> >>
    ELSE << Rgb(hex_to_rgb(CATEGORY_STYLES[name][1])),
            CATEGORY_STYLES[name][2], CATEGORY_STYLES[name][3] >>

----------------------------------------------------------------------------
(* Shape renderer *)

DrawnShapes == {"diamond", "circle", "box", "arrow_up", "arrow_down",
                "padlock", "star", "radio", "leaf"}

\* the outline colour the imaging library paints for a colour argument
Ink(color) == IF color.kind = "hex" THEN hex_to_rgb(color.v) ELSE color.v

\* the image draw_icon builds: the branch of the shape chain taken, the
\* outline colour, and the label drawn
Glyph(color, shape, text) ==
    << IF shape \in DrawnShapes THEN shape ELSE "square", Ink(color), first3(text) >>

----------------------------------------------------------------------------
(* Filesystem *)

NoLines == <<>>
NoGlyph == <<>>
TextFile(lines) == [kind |-> "text",    lines |-> lines,   glyph |-> NoGlyph]
BinaryFile      == [kind |-> "binary",  lines |-> NoLines, glyph |-> NoGlyph]
OtherFile       == [kind |-> "other",   lines |-> NoLines, glyph |-> NoGlyph]
PartialFile     == [kind |-> "partial", lines |-> NoLines, glyph |-> NoGlyph]
IconFile(g)     == [kind |-> "icon",    lines |-> NoLines, glyph |-> g]

\* os.path.join(folder, name)
join(folder, name) == <<folder, name>>
\* mutant: only a file that holds an icon counts as existing
exists_own(path) == path \in DOMAIN fs /\ fs[path].kind # "other"

\* os.path.exists(path), for a path below the root
exists(path) == path \in DOMAIN fs
\* os.path.isdir(os.path.join(ICONS_DIR, item))
isdir(item) == item \in dirs

----------------------------------------------------------------------------
(* Initial states: the folder structure a run can find *)

ICONS_DIR == "icons-pathfinding"

\* names a child of the root can have; the first two are category folders
\* (one known to CATEGORY_STYLES, one not), the third is a plain file
CategoryFolders == {"objectives", "unknown-cat"}
RootEntries == CategoryFolders \cup {"README.txt"}

\* lines of a manifest as iterating over the open file yields them
LineA     == <<"a", "\n">>
LineAPng  == <<"a", ".", "p", "n", "g", "\n">>
LineB     == <<" ", "b", "\n">>
LineBlank == <<" ", "\n">>
LineMid   == <<"a", ".", "p", "n", "g", "b", "\n">>
Lines == {LineA, LineAPng, LineB, LineBlank, LineMid}

AbsentFile == [kind |-> "absent", lines |-> NoLines, glyph |-> NoGlyph]

SeqsUpTo(S, n) == UNION {[1..k -> S] : k \in 0..n}

Perms(S) == {f \in [1..Cardinality(S) -> S] : \A i, j \in 1..Cardinality(S) : f[i] = f[j] => i = j}

RECURSIVE TotalLines(_, _)
TotalLines(m, ds) ==
    IF ds = {} THEN 0
    ELSE LET d == CHOOSE x \in ds : TRUE
         IN  Len(m[d].lines) + TotalLines(m, ds \ {d})

\* what a folder can hold at icon-names.txt: nothing, a file that cannot be
\* decoded as UTF-8 text, or a text file
ManifestChoices ==
    {AbsentFile, BinaryFile} \cup {TextFile(l) : l \in SeqsUpTo(Lines, MaxTotalLines)}

\* icon files that may already be there, with content this tool did not write
PreCandidates == {join("objectives", <<"a">> \o PNG)}
\* file names img.save may be unable to write
FailCandidates == {<<"b">> \o PNG}

InitFs(entries, m, pre) ==
    LET paths == {<<e>> : e \in entries \ CategoryFolders}
                 \cup {join(d, ManifestName) : d \in {x \in DOMAIN m : m[x].kind # "absent"}}
                 \cup pre
    IN  [p \in paths |->
            IF Len(p) = 2 /\ p[2] = ManifestName THEN m[p[1]] ELSE OtherFile]

NoStyle == <<>>
NoCategory == ""

Control ==
    /\ pc = "start"
    /\ run = 1
    /\ todo = <<>>
    /\ category_name = NoCategory
    /\ style = NoStyle
    /\ icon_names = <<>>
    /\ generated_count = 0
    /\ total_generated = 0
    /\ categories_processed = 0
    /\ ret = <<>>
    /\ out = <<>>
    /\ interrupted = FALSE

Init ==
    /\ root \in {"missing", "file", "dir"}
    /\ \E entries \in SUBSET RootEntries :
         /\ root # "dir" => entries = {}
         /\ dirs = entries \cap CategoryFolders
         /\ listing \in Perms(entries)
         /\ \E m \in [dirs -> ManifestChoices] :
              /\ TotalLines(m, dirs) <= MaxTotalLines
              /\ \E pre \in SUBSET {p \in PreCandidates : p[1] \in dirs} :
                   fs = InitFs(entries, m, pre)
    /\ failing \in SUBSET FailCandidates
    /\ leavesPartial \in BOOLEAN
    /\ root # "dir" => failing = {}
    /\ failing = {} => leavesPartial = FALSE
    /\ fs0 = fs
    /\ Control

----------------------------------------------------------------------------
(* main() *)

Emit(msg) == out' = Append(out, msg)

\* mutant: no check of the root before it is listed
MainRootMissing_raises ==
    /\ pc = "start"
    /\ root = "missing"
    /\ Emit(<<"generating">>)
    /\ pc' = "crashed"
    /\ UNCHANGED <<envVars, fs, run, todo, category_name, style, icon_names,
                   generated_count, total_generated, categories_processed, ret,
                   fs0, interrupted>>

\* lines 158-161
MainRootMissing ==
    /\ pc = "start"
    /\ root = "missing"
    /\ Emit(<<"icons_directory_not_found", ICONS_DIR>>)
    /\ pc' = "returned"
    /\ UNCHANGED <<envVars, fs, run, todo, category_name, style, icon_names,
                   generated_count, total_generated, categories_processed, ret,
                   fs0, interrupted>>

\* lines 158-170 when ICONS_DIR exists but os.listdir raises
MainRootNotDir ==
    /\ pc = "start"
    /\ root = "file"
    /\ Emit(<<"generating">>)
    /\ total_generated' = 0
    /\ categories_processed' = 0
    /\ pc' = "crashed"
    /\ UNCHANGED <<envVars, fs, run, todo, category_name, style, icon_names,
                   generated_count, ret, fs0, interrupted>>

\* lines 158-170
MainBegin ==
    /\ pc = "start"
    /\ root = "dir"
    /\ Emit(<<"generating">>)
    /\ total_generated' = 0
    /\ categories_processed' = 0
    /\ todo' = listing
    /\ pc' = "loop"
    /\ UNCHANGED <<envVars, fs, run, category_name, style, icon_names,
                   generated_count, ret, fs0, interrupted>>

\* lines 170-173, an entry that is not a directory
SkipEntry ==
    /\ pc = "loop"
    /\ todo # <<>>
    /\ ~isdir(Head(todo))
    /\ todo' = Tail(todo)
    /\ UNCHANGED <<envVars, fs, pc, run, category_name, style, icon_names,
                   generated_count, total_generated, categories_processed, ret,
                   out, fs0, interrupted>>

\* what lines 116-123 print
StyleWarning(name) ==
    IF name \notin DOMAIN CATEGORY_STYLES THEN <<<<"unknown_category", name>>>> ELSE <<>>

\* what lines 178-181 print for a returned count
CountMessage(count) ==
    IF count > 0 THEN <<"generated", count>> ELSE <<"nothing_to_generate">>

\* lines 175-177: the call returned count
Accumulate(item, count) ==
    /\ total_generated' = total_generated + count
    /\ categories_processed' = categories_processed + 1
    /\ ret' = (item :> count) @@ ret
    /\ todo' = Tail(todo)

\* mutant: opening the missing manifest raises
CategoryNoManifest_fatal ==
    /\ pc = "loop"
    /\ todo # <<>>
    /\ isdir(Head(todo))
    /\ ~exists(join(Head(todo), ManifestName))
    /\ out' = out \o <<<<"processing", Head(todo)>>>> \o StyleWarning(Head(todo))
    /\ pc' = "crashed"
    /\ UNCHANGED <<envVars, fs, run, todo, category_name, style, icon_names,
                   generated_count, total_generated, categories_processed, ret,
                   fs0, interrupted>>

\* lines 173-181 with lines 116-129: the folder has no manifest
CategoryNoManifest ==
    /\ pc = "loop"
    /\ todo # <<>>
    /\ isdir(Head(todo))
    /\ ~exists(join(Head(todo), ManifestName))
    /\ Accumulate(Head(todo), 0)
    /\ out' = out \o <<<<"processing", Head(todo)>>>> \o StyleWarning(Head(todo))
                  \o <<<<"no_manifest", Head(todo)>>, CountMessage(0)>>
    /\ UNCHANGED <<envVars, fs, pc, run, category_name, style, icon_names,
                   generated_count, fs0, interrupted>>

\* lines 173-175 with lines 116-133: reading the manifest raises
CategoryUnreadable ==
    /\ pc = "loop"
    /\ todo # <<>>
    /\ isdir(Head(todo))
    /\ exists(join(Head(todo), ManifestName))
    /\ fs[join(Head(todo), ManifestName)].kind # "text"
    /\ category_name' = Head(todo)
    /\ style' = ResolveStyle(Head(todo))
    /\ out' = out \o <<<<"processing", Head(todo)>>>> \o StyleWarning(Head(todo))
    /\ pc' = "crashed"
    /\ UNCHANGED <<envVars, fs, run, todo, icon_names, generated_count,
                   total_generated, categories_processed, ret, fs0, interrupted>>

\* [line.strip() for line in f if line.strip()]
RECURSIVE ReadNames(_)
ReadNames(lines) ==
    IF lines = <<>> THEN <<>>
    ELSE IF strip(Head(lines)) # <<>>
         THEN <<strip(Head(lines))>> \o ReadNames(Tail(lines))
         ELSE ReadNames(Tail(lines))

\* lines 173-175 with lines 116-135
CategoryRead ==
    /\ pc = "loop"
    /\ todo # <<>>
    /\ isdir(Head(todo))
    /\ exists(join(Head(todo), ManifestName))
    /\ fs[join(Head(todo), ManifestName)].kind = "text"
    /\ category_name' = Head(todo)
    /\ style' = ResolveStyle(Head(todo))
    /\ icon_names' = ReadNames(fs[join(Head(todo), ManifestName)].lines)
    /\ generated_count' = 0
    /\ out' = out \o <<<<"processing", Head(todo)>>>> \o StyleWarning(Head(todo))
    /\ pc' = "category"
    /\ UNCHANGED <<envVars, fs, run, todo, total_generated, categories_processed,
                   ret, fs0, interrupted>>

\* lines 139-142
OutputName(icon_name) == replace_png(icon_name) \o PNG
OutputPath(folder, icon_name) == join(folder, OutputName(icon_name))

\* lines 137-146: the destination exists
IconSkip ==
    /\ pc = "category"
    /\ icon_names # <<>>
    /\ exists(OutputPath(category_name, Head(icon_names)))
    /\ icon_names' = Tail(icon_names)
    /\ UNCHANGED <<envVars, fs, pc, run, todo, category_name, style,
                   generated_count, total_generated, categories_processed, ret,
                   out, fs0, interrupted>>

\* draw_icon, lines 25-107, when img.save succeeds
draw_icon(color, shape, text, output_path) ==
    fs' = (output_path :> IconFile(Glyph(color, shape, text))) @@ fs

\* draw_icon when img.save raises
draw_icon_raises(output_path) ==
    fs' = IF leavesPartial THEN (output_path :> PartialFile) @@ fs ELSE fs

\* mutant: no existence check before drawing
IconGenerate_always ==
    /\ pc = "category"
    /\ icon_names # <<>>
    /\ OutputName(Head(icon_names)) \notin failing
    /\ draw_icon(style[1], style[2], style[3], OutputPath(category_name, Head(icon_names)))
    /\ generated_count' = generated_count + 1
    /\ icon_names' = Tail(icon_names)
    /\ UNCHANGED <<envVars, pc, run, todo, category_name, style,
                   total_generated, categories_processed, ret, out, fs0, interrupted>>

\* mutant: the drawn icon is not counted
IconGenerate_nocount ==
    /\ pc = "category"
    /\ icon_names # <<>>
    /\ ~exists(OutputPath(category_name, Head(icon_names)))
    /\ OutputName(Head(icon_names)) \notin failing
    /\ draw_icon(style[1], style[2], style[3], OutputPath(category_name, Head(icon_names)))
    /\ icon_names' = Tail(icon_names)
    /\ UNCHANGED <<envVars, pc, run, todo, category_name, style, generated_count,
                   total_generated, categories_processed, ret, out, fs0, interrupted>>

\* lines 137-150
IconGenerate ==
    /\ pc = "category"
    /\ icon_names # <<>>
    /\ ~exists(OutputPath(category_name, Head(icon_names)))
    /\ OutputName(Head(icon_names)) \notin failing
    /\ draw_icon(style[1], style[2], style[3], OutputPath(category_name, Head(icon_names)))
    /\ generated_count' = generated_count + 1
    /\ icon_names' = Tail(icon_names)
    /\ UNCHANGED <<envVars, pc, run, todo, category_name, style,
                   total_generated, categories_processed, ret, out, fs0, interrupted>>

\* mutant: the try block encloses the loop, a failure ends it
IconFail_abort ==
    /\ pc = "category"
    /\ icon_names # <<>>
    /\ ~exists(OutputPath(category_name, Head(icon_names)))
    /\ OutputName(Head(icon_names)) \in failing
    /\ draw_icon_raises(OutputPath(category_name, Head(icon_names)))
    /\ Emit(<<"error_generating", replace_png(Head(icon_names))>>)
    /\ icon_names' = <<>>
    /\ UNCHANGED <<envVars, pc, run, todo, category_name, style, generated_count,
                   total_generated, categories_processed, ret, fs0, interrupted>>

\* lines 137-152, draw_icon raises
IconFail ==
    /\ pc = "category"
    /\ icon_names # <<>>
    /\ ~exists(OutputPath(category_name, Head(icon_names)))
    /\ OutputName(Head(icon_names)) \in failing
    /\ draw_icon_raises(OutputPath(category_name, Head(icon_names)))
    /\ Emit(<<"error_generating", replace_png(Head(icon_names))>>)
    /\ icon_names' = Tail(icon_names)
    /\ UNCHANGED <<envVars, pc, run, todo, category_name, style, generated_count,
                   total_generated, categories_processed, ret, fs0, interrupted>>

\* line 154 with lines 175-181
CategoryReturn ==
    /\ pc = "category"
    /\ icon_names = <<>>
    /\ Accumulate(category_name, generated_count)
    /\ Emit(CountMessage(generated_count))
    /\ pc' = "loop"
    /\ UNCHANGED <<envVars, fs, run, category_name, style, icon_names,
                   generated_count, fs0, interrupted>>

\* lines 183-186
MainSummary ==
    /\ pc = "loop"
    /\ todo = <<>>
    /\ Emit(<<"complete", total_generated, categories_processed>>)
    /\ pc' = "done"
    /\ UNCHANGED <<envVars, fs, run, todo, category_name, style, icon_names,
                   generated_count, total_generated, categories_processed, ret,
                   fs0, interrupted>>

Ended == {"done", "returned", "crashed", "interrupted"}

\* the operator starts the script again, nothing else having touched the disk
Rerun ==
    /\ pc \in Ended
    /\ run < MaxRuns
    /\ run' = run + 1
    /\ pc' = "start"
    /\ todo' = <<>>
    /\ category_name' = NoCategory
    /\ style' = NoStyle
    /\ icon_names' = <<>>
    /\ generated_count' = 0
    /\ total_generated' = 0
    /\ categories_processed' = 0
    /\ ret' = <<>>
    /\ out' = <<>>
    /\ fs0' = fs
    /\ UNCHANGED <<envVars, fs, interrupted>>

\* the operator stops the script between two file operations
Interrupt ==
    /\ pc \in {"loop", "category"}
    /\ pc' = "interrupted"
    /\ interrupted' = TRUE
    /\ UNCHANGED <<envVars, fs, run, todo, category_name, style, icon_names,
                   generated_count, total_generated, categories_processed, ret,
                   out, fs0>>

\* the script is stopped inside img.save (line 106), after the file was
\* opened for writing and before its data is complete
InterruptMidSave ==
    /\ pc = "category"
    /\ icon_names # <<>>
    /\ ~exists(OutputPath(category_name, Head(icon_names)))
    /\ OutputName(Head(icon_names)) \notin failing
    /\ fs' = (OutputPath(category_name, Head(icon_names)) :> PartialFile) @@ fs
    /\ pc' = "interrupted"
    /\ interrupted' = TRUE
    /\ UNCHANGED <<envVars, run, todo, category_name, style, icon_names,
                   generated_count, total_generated, categories_processed, ret,
                   out, fs0>>

Next ==
    \/ MainRootMissing
    \/ MainRootNotDir
    \/ MainBegin
    \/ SkipEntry
    \/ CategoryNoManifest
    \/ CategoryUnreadable
    \/ CategoryRead
    \/ IconSkip
    \/ IconGenerate
    \/ IconFail
    \/ CategoryReturn
    \/ MainSummary
    \/ Rerun

Spec == Init /\ [][Next]_vars

NextCrash ==
    \/ Next
    \/ Interrupt
    \/ InterruptMidSave

SpecCrash == Init /\ [][NextCrash]_vars

\* the script runs on without being stopped from outside
FairSpec == Spec /\ WF_vars(Next)

----------------------------------------------------------------------------
(* Vocabulary of the properties *)

HasManifest(d) == join(d, ManifestName) \in DOMAIN fs

ReadableManifest(d) == HasManifest(d) /\ fs[join(d, ManifestName)].kind = "text"

\* the entries generate_icons_for_category iterates over in folder d
ManifestNames(d) == ReadNames(fs[join(d, ManifestName)].lines)

\* files that exist now and did not when this run started
NewFiles == DOMAIN fs \ DOMAIN fs0

NewFilesIn(d) == {p \in NewFiles : Len(p) = 2 /\ p[1] = d}

Range(f) == {f[i] : i \in DOMAIN f}

RECURSIVE SumOf(_, _)
SumOf(f, S) ==
    IF S = {} THEN 0
    ELSE LET x == CHOOSE y \in S : TRUE IN f[x] + SumOf(f, S \ {x})

Printed(msg) == \E i \in DOMAIN out : out[i] = msg

\* an entry with a trailing ".png" removed, and otherwise unchanged
TrailingStem(e) ==
    IF Len(e) >= Len(PNG) /\ SubSeq(e, Len(e) - Len(PNG) + 1, Len(e)) = PNG
    THEN SubSeq(e, 1, Len(e) - Len(PNG))
    ELSE e

----------------------------------------------------------------------------
(* C1 *)

\* C1: a run that follows another run with no outside change to the disk
\* leaves the set of files and their contents as the first run left them and
\* generates 0 icons: every call of generate_icons_for_category returns 0.
C1_Idempotent ==
    run >= 2 =>
        /\ fs = fs0
        /\ generated_count = 0
        /\ total_generated = 0
        /\ \A d \in DOMAIN ret : ret[d] = 0

\* a second run has completed over folders in which the first run drew icons
C1_Witness ==
    /\ run = 2
    /\ pc = "done"
    /\ DOMAIN ret = dirs
    /\ \E p \in DOMAIN fs : fs[p].kind = "icon"

----------------------------------------------------------------------------
(* C2 *)

\* C2: every file that existed when the run started still exists with the
\* content it had, at every point of the run, also after a failed save; files
\* are only ever added.
C2_ExistingUntouched ==
    \A p \in DOMAIN fs0 : p \in DOMAIN fs /\ fs[p] = fs0[p]

\* a finished run that passed over a manifest entry whose icon was already
\* there, logged a failed save and added a file elsewhere
C2_Witness ==
    /\ pc = "done"
    /\ NewFiles # {}
    /\ \E i \in DOMAIN out : out[i][1] = "error_generating"
    /\ \E d \in DOMAIN ret :
         /\ ReadableManifest(d)
         /\ \E i \in DOMAIN ManifestNames(d) :
              /\ OutputPath(d, ManifestNames(d)[i]) \in DOMAIN fs0
              /\ fs0[OutputPath(d, ManifestNames(d)[i])].kind = "other"

----------------------------------------------------------------------------
(* C3 *)

Distinct(sq) == \A i, j \in DOMAIN sq : sq[i] = sq[j] => i = j

DestinationsOf(d) ==
    {OutputPath(d, ManifestNames(d)[i]) : i \in DOMAIN ManifestNames(d)}

----------------------------------------------------------------------------
(* C4 *)

\* C4: every file the run creates in a folder is at <folder>/<stem>.png for
\* an entry of that folder's manifest, stem being the entry with a trailing
\* ".png" removed and nothing else altered.
C4_TrailingSuffixOnly ==
    \A p \in NewFiles :
        /\ Len(p) = 2
        /\ ReadableManifest(p[1])
        /\ \E i \in DOMAIN ManifestNames(p[1]) :
              p = join(p[1], TrailingStem(ManifestNames(p[1])[i]) \o PNG)

----------------------------------------------------------------------------
(* C5 *)

\* C5: every icon drawn in folder "objectives" is the star in #ffeb3b with
\* the label of the table, every icon drawn in a folder the table does not
\* know is the circle in #9e9e9e labelled "???", and in general the glyph is
\* a function of the folder name alone: shape and label of the table entry,
\* colour the value of its hex string.
C5_StyleFidelity ==
    \A p \in DOMAIN fs :
        fs[p].kind = "icon" =>
            /\ p[1] = "objectives" =>
                 fs[p].glyph = <<"star", <<255, 235, 59>>, <<"O", "B", "J">>>>
            /\ p[1] \notin DOMAIN CATEGORY_STYLES =>
                 fs[p].glyph = <<"circle", <<158, 158, 158>>, <<"?", "?", "?">>>>
            /\ p[1] \in DOMAIN CATEGORY_STYLES =>
                 /\ fs[p].glyph[1] = CATEGORY_STYLES[p[1]][2]
                 /\ fs[p].glyph[3] = SubSeq(CATEGORY_STYLES[p[1]][3], 1, 3)

\* icons have been drawn in a known and in an unknown folder
C5_Witness ==
    /\ \E p \in DOMAIN fs : fs[p].kind = "icon" /\ p[1] = "objectives"
    /\ \E p \in DOMAIN fs : fs[p].kind = "icon" /\ p[1] = "unknown-cat"
    /\ Printed(<<"unknown_category", "unknown-cat">>)

----------------------------------------------------------------------------
(* C6 *)

\* C6: when a folder has been processed, every entry whose save does not fail
\* has its file, also the entries that come after one whose save failed; a
\* failed entry is logged and not counted, the count being the number of
\* icons newly drawn; and the call did return.
C6_FailureIsolation ==
    \A d \in DOMAIN ret :
        ReadableManifest(d) =>
            /\ \A i \in DOMAIN ManifestNames(d) :
                 LET name == ManifestNames(d)[i]
                 IN  /\ OutputName(name) \notin failing =>
                           /\ OutputPath(d, name) \in DOMAIN fs
                           /\ OutputPath(d, name) \notin DOMAIN fs0 =>
                                 fs[OutputPath(d, name)].kind = "icon"
                     /\ (OutputName(name) \in failing /\ OutputPath(d, name) \notin DOMAIN fs0) =>
                           /\ Printed(<<"error_generating", replace_png(name)>>)
                           /\ OutputPath(d, name) \in DOMAIN fs =>
                                 fs[OutputPath(d, name)].kind = "partial"
            /\ ret[d] = Cardinality({p \in NewFilesIn(d) : fs[p].kind = "icon"})

\* a folder has been processed in which the first entry failed and the
\* second, coming after it, was drawn and counted
C6_Witness ==
    \E d \in DOMAIN ret :
        /\ ReadableManifest(d)
        /\ Len(ManifestNames(d)) = 2
        /\ OutputName(ManifestNames(d)[1]) \in failing
        /\ Printed(<<"error_generating", replace_png(ManifestNames(d)[1])>>)
        /\ OutputPath(d, ManifestNames(d)[2]) \in NewFiles
        /\ ret[d] = 1

----------------------------------------------------------------------------
(* C7 *)

\* C7: a folder without icon-names.txt returns 0 and gets no file; it does
\* not end the run: a run only crashes at an entry that has a manifest,
\* while it goes on every folder not yet returned from is still to be
\* visited, and a finished run has returned from every folder.
C7_SkipMissingManifest ==
    /\ \A d \in dirs :
         ~HasManifest(d) =>
            /\ d \in DOMAIN ret => ret[d] = 0
            /\ NewFilesIn(d) = {}
    /\ (pc = "crashed" /\ root = "dir") => (todo # <<>> /\ HasManifest(Head(todo)))
    /\ pc \in {"loop", "category"} => \A d \in dirs : d \in DOMAIN ret \/ d \in Range(todo)
    /\ pc = "done" => DOMAIN ret = dirs

\* a finished run visited a folder without manifest first and drew icons in
\* its sibling afterwards
C7_Witness ==
    /\ pc = "done"
    /\ \E i, j \in DOMAIN listing :
         /\ i < j
         /\ listing[i] \in dirs /\ ~HasManifest(listing[i])
         /\ listing[j] \in dirs /\ ret[listing[j]] > 0

----------------------------------------------------------------------------
(* C8 *)

\* C8 as stated: no run of main() ends in a crash.
C8_NeverCrashes == pc # "crashed"

\* C8 amended, safety: a run crashes only where ICONS_DIR exists without
\* being a directory or where a manifest exists that cannot be read as
\* text; a missing root gives the diagnostic and an early return with no
\* folder processed and no file created; a run that gets to its end has
\* returned from every folder and printed the summary.
C8_Exits ==
    /\ pc = "crashed" =>
          \/ root = "file"
          \/ /\ todo # <<>>
             /\ HasManifest(Head(todo))
             /\ ~ReadableManifest(Head(todo))
    /\ root = "missing" => pc \in {"start", "returned"}
    /\ pc = "returned" =>
          /\ root = "missing"
          /\ out = <<<<"icons_directory_not_found", ICONS_DIR>>>>
          /\ ret = <<>>
          /\ fs = fs0
    /\ pc = "done" =>
          /\ root = "dir"
          /\ todo = <<>>
          /\ DOMAIN ret = dirs
          /\ out[Len(out)] = <<"complete", total_generated, categories_processed>>

\* C8 amended: every run ends; it ends by the early return when the root is
\* missing, in a crash only for a root that is not a directory or a manifest
\* that cannot be read, and otherwise after one full pass with the summary.
C8_RunsToCompletion ==
    /\ []C8_Exits
    /\ (pc = "start") ~> (pc \in {"done", "returned", "crashed"})

\* a run over two folders got to its summary
C8_Witness ==
    /\ pc = "done"
    /\ Cardinality(dirs) = 2
    /\ out[Len(out)] = <<"complete", total_generated, categories_processed>>
    /\ total_generated > 0

----------------------------------------------------------------------------
(* C9 *)

\* C9: after a run that was interrupted, a complete run leaves every file
\* that was there intact and every name of every manifest with a complete
\* icon file at its destination (save failures apart).
C9_ResumeCompletes ==
    (interrupted /\ pc = "done" /\ failing = {}) =>
        /\ \A p \in DOMAIN fs0 : p \in DOMAIN fs /\ fs[p] = fs0[p]
        /\ \A d \in dirs :
             ReadableManifest(d) =>
                \A i \in DOMAIN ManifestNames(d) :
                    /\ OutputPath(d, ManifestNames(d)[i]) \in DOMAIN fs
                    /\ fs[OutputPath(d, ManifestNames(d)[i])].kind # "partial"

----------------------------------------------------------------------------
(* C10 *)

\* C10: at the end of a complete run the printed total is the sum of the
\* counts returned for the folders and the number of files that exist now
\* and did not before the run, and the printed category count is the number
\* of child directories of the root.
C10_SummaryAccounting ==
    pc = "done" =>
        /\ out[Len(out)] = <<"complete", total_generated, categories_processed>>
        /\ total_generated = SumOf(ret, DOMAIN ret)
        /\ total_generated = Cardinality(NewFiles)
        /\ categories_processed = Cardinality(dirs)

====
